---- MODULE Spec2Model ----
(***************************************************************************)
(* Model of the budget dashboard's aggregation and guardrail pipeline      *)
(* (src/app.py).  The program is a Streamlit script: every user            *)
(* interaction re-runs the whole script top to bottom against the session  *)
(* state, so every action below is one complete rerun of the script.       *)
(*                                                                         *)
(* Amounts are whole euros.  Text is modelled character by character, so   *)
(* that slicing, title-casing, parsing and ordering are computed the way   *)
(* the code computes them.                                                 *)
(***************************************************************************)
EXTENDS Integers, Sequences, FiniteSets, TLC

VARIABLES
    data,           \* st.session_state.data: the recorded rows
    categories,     \* st.session_state.categories: the category catalog
    budgets,        \* st.session_state.budgets: rows (Category, Monthly Budget)
    settings,       \* st.session_state.settings (the fields the pipeline reads)
    now,            \* the clock, datetime.now(), as a calendar date
    uploaded_cats,  \* the categories uploader's file in the latest rerun
    uploaded,       \* the data uploader's file in the latest rerun
    submitted,      \* whether the quick-entry form was submitted in the latest rerun
    messages,       \* what the Home tab reported in the latest rerun
    cat_sum,        \* Budget & Entries tab: per-category summary of the current month
    monthly,        \* Analytics tab: aggregate_monthly(data)
    pace,           \* Analytics tab: the pace tracker's numbers
    roll,           \* Analytics tab: the rolling-average table of the tracked categories
    alerts,         \* Analytics tab: the alerts list of "Guardrails & Caps"
    no_breach,      \* Analytics tab: "No guardrail breaches detected." was shown
    risk_errors     \* Analytics tab: the errors shown under "Risk Guards"

vars == <<data, categories, budgets, settings, now, uploaded_cats, uploaded,
          submitted, messages, cat_sum, monthly, pace, roll, alerts, no_breach,
          risk_errors>>

-----------------------------------------------------------------------------
(* Bounds of the model. *)

\* The most rows the session data holds in the model.
MaxRows == 2

-----------------------------------------------------------------------------
(* Text, character by character. *)

Char(s, i) == SubSeq(s, i, i)

Digits == "0123456789"
UpperCase == "ABCDEFGHIJKLMNOPQRSTUVWXYZ"
LowerCase == "abcdefghijklmnopqrstuvwxyz"
\* The characters of the model in code point order (Python compares text by
\* code point).
CodePoints == " &'(),-./" \o Digits \o UpperCase \o LowerCase

CharSet == {Char(CodePoints, i) : i \in 1..Len(CodePoints)}

\* Tables over the characters: the code point order, the digits' values and
\* the two cases.
OrdOf == [c \in CharSet |-> CHOOSE i \in 1..Len(CodePoints) : Char(CodePoints, i) = c]
DigitSet == {Char(Digits, i) : i \in 1..Len(Digits)}
DigitVal == [c \in DigitSet |-> (CHOOSE i \in 1..Len(Digits) : Char(Digits, i) = c) - 1]
UpperSet == {Char(UpperCase, i) : i \in 1..Len(UpperCase)}
LowerSet == {Char(LowerCase, i) : i \in 1..Len(LowerCase)}
UpperOf == [c \in LowerSet |->
               Char(UpperCase, CHOOSE i \in 1..Len(LowerCase) : Char(LowerCase, i) = c)]
LowerOf == [c \in UpperSet |->
               Char(LowerCase, CHOOSE i \in 1..Len(UpperCase) : Char(UpperCase, i) = c)]

IsDigit(c) == c \in DigitSet
IsCased(c) == c \in UpperSet \/ c \in LowerSet

ToUpper(c) == IF c \in LowerSet THEN UpperOf[c] ELSE c
ToLower(c) == IF c \in UpperSet THEN LowerOf[c] ELSE c

AllDigits(s) == Len(s) > 0 /\ \A i \in 1..Len(s) : IsDigit(Char(s, i))

\* int(s) for a text of digits.
RECURSIVE ToInt(_)
ToInt(s) == IF Len(s) = 0 THEN 0
            ELSE ToInt(SubSeq(s, 1, Len(s) - 1)) * 10
                 + DigitVal[Char(s, Len(s))]

\* str(n) for n >= 0, and zero-padded to a width (strftime's %Y and %m).
RECURSIVE IntToStr(_)
IntToStr(n) == IF n < 10 THEN Char(Digits, n + 1)
               ELSE IntToStr(n \div 10) \o Char(Digits, (n % 10) + 1)

RECURSIVE ZeroPad(_, _)
ZeroPad(s, w) == IF Len(s) >= w THEN s ELSE ZeroPad("0" \o s, w)

\* s[:n]
Slice(s, n) == SubSeq(s, 1, IF Len(s) < n THEN Len(s) ELSE n)

\* s.strip() for blanks.
RECURSIVE Strip(_)
Strip(s) == IF Len(s) > 0 /\ Char(s, 1) = " " THEN Strip(SubSeq(s, 2, Len(s)))
            ELSE IF Len(s) > 0 /\ Char(s, Len(s)) = " "
                 THEN Strip(SubSeq(s, 1, Len(s) - 1))
            ELSE s

\* s.split(sep) for a one-character separator.
RECURSIVE Split(_, _)
Split(s, sep) ==
    IF \E i \in 1..Len(s) : Char(s, i) = sep
    THEN LET i == CHOOSE j \in 1..Len(s) :
                    /\ Char(s, j) = sep
                    /\ \A k \in 1..(j - 1) : Char(s, k) # sep
         IN <<SubSeq(s, 1, i - 1)>> \o Split(SubSeq(s, i + 1, Len(s)), sep)
    ELSE <<s>>

\* a < b for Python str: lexicographic by code point.
RECURSIVE StrLess(_, _)
StrLess(a, b) ==
    IF Len(b) = 0 THEN FALSE
    ELSE IF Len(a) = 0 THEN TRUE
    ELSE IF Char(a, 1) = Char(b, 1)
         THEN StrLess(SubSeq(a, 2, Len(a)), SubSeq(b, 2, Len(b)))
    ELSE OrdOf[Char(a, 1)] < OrdOf[Char(b, 1)]

\* s.swapcase(): every cased character toggled.
RECURSIVE SwapCase(_)
SwapCase(s) ==
    IF Len(s) = 0 THEN ""
    ELSE (IF Char(s, 1) \in UpperSet THEN ToLower(Char(s, 1))
          ELSE ToUpper(Char(s, 1))) \o SwapCase(SubSeq(s, 2, Len(s)))

\* s.title(): a cased character is upper-cased when it starts a word (follows
\* an uncased character or nothing) and lower-cased otherwise.
RECURSIVE TitleFrom(_, _)
TitleFrom(s, inWord) ==
    IF Len(s) = 0 THEN ""
    ELSE LET c == Char(s, 1)
         IN (IF ~IsCased(c) THEN c
             ELSE IF inWord THEN ToLower(c) ELSE ToUpper(c))
            \o TitleFrom(SubSeq(s, 2, Len(s)), IsCased(c))

Title(s) == TitleFrom(s, FALSE)

-----------------------------------------------------------------------------
(* Calendar arithmetic: datetime(y, m, d) and the difference of two dates  *)
(* in days.                                                                *)

IsLeap(y) == y % 4 = 0 /\ (y % 100 # 0 \/ y % 400 = 0)

MonthLengths == <<31, 28, 31, 30, 31, 30, 31, 31, 30, 31, 30, 31>>

CalendarDays(y, m) == IF m = 2 /\ IsLeap(y) THEN 29 ELSE MonthLengths[m]

RECURSIVE DaysBeforeMonth(_, _)
DaysBeforeMonth(y, m) ==
    IF m = 1 THEN 0 ELSE DaysBeforeMonth(y, m - 1) + CalendarDays(y, m - 1)

DaysBeforeYear(y) ==
    (y - 1) * 365 + ((y - 1) \div 4) - ((y - 1) \div 100) + ((y - 1) \div 400)

\* The day number of a date; the difference of two is (a - b).days.
Ordinal(y, m, d) == DaysBeforeYear(y) + DaysBeforeMonth(y, m) + d

-----------------------------------------------------------------------------
(* Cells of a data frame.  A cell is text, a number, a timestamp or one of *)
(* the missing values None, NaN and NaT; k names which, s holds the text   *)
(* (of a timestamp: its ISO date) and n the number (of a timestamp: its    *)
(* day number).                                                            *)

NoneCell == [k |-> "none", s |-> "", n |-> 0]
NaN == [k |-> "nan", s |-> "", n |-> 0]
NaT == [k |-> "nat", s |-> "", n |-> 0]
Str(t) == [k |-> "str", s |-> t, n |-> 0]
Num(x) == [k |-> "num", s |-> "", n |-> x]

IsoDate(y, m, d) ==
    ZeroPad(IntToStr(y), 4) \o "-" \o ZeroPad(IntToStr(m), 2) \o "-"
    \o ZeroPad(IntToStr(d), 2)

\* pd.to_datetime(date(y, m, d))
Timestamp(y, m, d) == [k |-> "date", s |-> IsoDate(y, m, d), n |-> Ordinal(y, m, d)]

IsNull(c) == c.k \in {"none", "nan", "nat"}

\* The columns of the transaction table; Budget and Actual stand for the
\* columns "Budget (EUR)" and "Actual (EUR)".
Cols == <<"Month", "Date", "Category", "Type", "Budget", "Actual", "Section">>
ColSet == {Cols[i] : i \in 1..Len(Cols)}

\* str(x) of a cell, as astype(str) gives it.
AsStr(c) == CASE c.k = "str" -> c.s
              [] c.k = "date" -> c.s
              [] c.k = "num" -> IntToStr(c.n)
              [] c.k = "none" -> "None"
              [] c.k = "nan" -> "nan"
              [] c.k = "nat" -> "NaT"

\* series.fillna(v)
FillNa(c, v) == IF IsNull(c) THEN v ELSE c

\* pd.to_datetime(cell, errors="coerce"): a timestamp stays, a text in ISO
\* form "YYYY-MM-DD" naming a real date is parsed, anything else is NaT.
ToDatetime(c) ==
    IF c.k = "date" THEN c
    ELSE IF /\ c.k = "str"
            /\ Len(c.s) = 10
            /\ Char(c.s, 5) = "-" /\ Char(c.s, 8) = "-"
            /\ AllDigits(SubSeq(c.s, 1, 4))
            /\ AllDigits(SubSeq(c.s, 6, 7))
            /\ AllDigits(SubSeq(c.s, 9, 10))
            /\ ToInt(SubSeq(c.s, 1, 4)) >= 1
            /\ ToInt(SubSeq(c.s, 6, 7)) \in 1..12
            /\ ToInt(SubSeq(c.s, 9, 10)) \in
                   1..CalendarDays(ToInt(SubSeq(c.s, 1, 4)), ToInt(SubSeq(c.s, 6, 7)))
         THEN Timestamp(ToInt(SubSeq(c.s, 1, 4)), ToInt(SubSeq(c.s, 6, 7)),
                        ToInt(SubSeq(c.s, 9, 10)))
    ELSE NaT

\* pd.to_numeric(cell, errors="coerce"): a number stays, a text of digits is
\* parsed, anything else is NaN.
ToNumeric(c) ==
    IF c.k = "num" THEN c
    ELSE IF c.k = "str" /\ AllDigits(c.s) THEN Num(ToInt(c.s))
    ELSE NaN

\* series.str.title(): text is title-cased, any other cell becomes NaN.
StrTitleSwapped(c) == IF c.k = "str" THEN Str(SwapCase(c.s)) ELSE NaN
StrTitle(c) == IF c.k = "str" THEN Str(Title(c.s)) ELSE NaN

-----------------------------------------------------------------------------
(* The category catalog and the budget table.                              *)

\* catalog.set_index("Category")["Section"].to_dict(): the keys, and the value
\* of a key (the last row of that category wins).
CatKeys(cats) == {cats[i].Category : i \in 1..Len(cats)}

CatSection(cats, c) ==
    LET i == CHOOSE j \in 1..Len(cats) :
                 /\ cats[j].Category = c
                 /\ \A k \in (j + 1)..Len(cats) : cats[k].Category # c
    IN cats[i].Section

\* budgets.set_index("Category")["Monthly Budget"].to_dict()
BudgetKeys(b) == {b[i].Category : i \in 1..Len(b)}

BudgetOf(b, c) ==
    LET i == CHOOSE j \in 1..Len(b) :
                 /\ b[j].Category = c
                 /\ \A k \in (j + 1)..Len(b) : b[k].Category # c
    IN b[i].Budget

\* The budgets editor: the catalog's categories left-merged with the budget
\* table, a category without a budget getting 0.
RECURSIVE MergeBudgets(_, _)
MergeBudgets(cats, b) ==
    IF Len(cats) = 0 THEN <<>>
    ELSE LET c == Head(cats).Category
             hits == SelectSeq(b, LAMBDA r : r.Category = c)
         IN (IF Len(hits) = 0 THEN <<[Category |-> c, Budget |-> 0]>> ELSE hits)
            \o MergeBudgets(Tail(cats), b)

-----------------------------------------------------------------------------
(* ensure_columns: the normalizer.                                         *)

\* Section of a row: the catalog's section of its (coerced) category, and
\* the row's own Section cell when the catalog has no such category.
SectionIfMissing(cats, category, own) ==
    IF ~IsNull(own) THEN own
    ELSE IF category \in CatKeys(cats) THEN Str(CatSection(cats, category))
    ELSE own

SectionFor(cats, category, own) ==
    IF category \in CatKeys(cats) THEN Str(CatSection(cats, category)) ELSE own

\* One row through ensure_columns; a column the frame lacks is None.
EnsureRow(r, cats, default_month) ==
    LET cell(c) == IF c \in DOMAIN r THEN r[c] ELSE NoneCell
        category == AsStr(cell("Category"))
    IN [c \in ColSet \cup DOMAIN r |->
          CASE c = "Month" -> Str(Slice(AsStr(FillNa(cell(c), Str(default_month))), 7))
            [] c = "Date" -> ToDatetime(cell(c))
            [] c = "Category" -> Str(category)
            [] c = "Type" -> StrTitle(cell(c))
            [] c \in {"Budget", "Actual"} -> FillNa(ToNumeric(cell(c)), Num(0))
            [] c = "Section" -> SectionFor(cats, category, cell(c))
            [] OTHER -> r[c]]

ensure_columns(df, cats, default_month) ==
    [i \in 1..Len(df) |-> EnsureRow(df[i], cats, default_month)]

-----------------------------------------------------------------------------
(* Aggregation.                                                            *)

RECURSIVE SumCol(_, _)
SumCol(df, c) == IF Len(df) = 0 THEN 0 ELSE Head(df)[c].n + SumCol(Tail(df), c)

IsType(r, t) == r.Type = Str(t)

\* The keys of a set of texts in ascending order.
RECURSIVE SortedKeys(_)
SortedKeys(S) ==
    IF S = {} THEN <<>>
    ELSE LET m == CHOOSE x \in S : \A y \in S \ {x} : StrLess(x, y)
         IN <<m>> \o SortedKeys(S \ {m})

MonthRows(df, m) == SelectSeq(df, LAMBDA r : r.Month = Str(m))

\* One month's summary; income and expense are sums of Actual over the
\* month's Income and Expense rows.
MonthSummaryClamped(df, m) ==
    LET inc == SumCol(SelectSeq(MonthRows(df, m), LAMBDA r : IsType(r, "Income")), "Actual")
        exp == SumCol(SelectSeq(MonthRows(df, m), LAMBDA r : IsType(r, "Expense")), "Actual")
    IN [Month |-> m, Income |-> inc, Expense |-> exp,
        Savings |-> IF inc - exp < 0 THEN 0 ELSE inc - exp]

MonthSummary(df, m) ==
    LET inc == SumCol(SelectSeq(MonthRows(df, m), LAMBDA r : IsType(r, "Income")), "Actual")
        exp == SumCol(SelectSeq(MonthRows(df, m), LAMBDA r : IsType(r, "Expense")), "Actual")
    IN [Month |-> m, Income |-> inc, Expense |-> exp, Savings |-> inc - exp]

aggregate_monthly(df) ==
    LET keys == SortedKeys({df[i].Month.s : i \in 1..Len(df)})
    IN [i \in 1..Len(keys) |-> MonthSummary(df, keys[i])]

\* The month under analysis: the Month of the last row.
current_month_key(df, default_month) ==
    IF Len(df) = 0 THEN default_month ELSE df[Len(df)].Month.s

\* dfm with Budget replaced by the budget table's value for the row's
\* category, where the table has that category.
WithBudgetMap(dfm, b) ==
    [i \in 1..Len(dfm) |->
        IF dfm[i].Category.s \in BudgetKeys(b)
        THEN [dfm[i] EXCEPT !["Budget"] = Num(BudgetOf(b, dfm[i].Category.s))]
        ELSE dfm[i]]

\* One row of the per-category summary: sums over the rows of one
\* (Category, Type, Section) group, Income rows forced to budget and
\* variance 0.
CatRowUnforced(grp) ==
    [Category |-> grp[1].Category.s, Type |-> grp[1].Type.s,
     Section |-> grp[1].Section.s,
     Budget |-> SumCol(grp, "Budget"), Actual |-> SumCol(grp, "Actual"),
     Variance |-> SumCol(grp, "Budget") - SumCol(grp, "Actual")]

CatRow(grp) ==
    LET income == grp[1].Type.s = "Income"
    IN [Category |-> grp[1].Category.s, Type |-> grp[1].Type.s,
        Section |-> grp[1].Section.s,
        Budget |-> IF income THEN 0 ELSE SumCol(grp, "Budget"),
        Actual |-> SumCol(grp, "Actual"),
        Variance |-> IF income THEN 0
                     ELSE SumCol(grp, "Budget") - SumCol(grp, "Actual")]

\* cat_sum: the groups of the month's rows by (Category, Type, Section);
\* groupby drops the rows whose key has a missing value.
CatSum(df, cm, b) ==
    LET dfm == WithBudgetMap(MonthRows(df, cm), b)
        keyed == SelectSeq(dfm, LAMBDA r : ~IsNull(r.Type) /\ ~IsNull(r.Section))
        key(r) == <<r.Category, r.Type, r.Section>>
    IN {CatRow(SelectSeq(keyed, LAMBDA r : key(r) = k)) :
            k \in {key(keyed[i]) : i \in 1..Len(keyed)}}

\* exp_only: the month's Expense rows grouped by Category.
ExpOnly(df, cm, b) ==
    LET dfm == WithBudgetMap(MonthRows(df, cm), b)
        exp == SelectSeq(dfm, LAMBDA r : IsType(r, "Expense"))
    IN {[Category |-> c,
         Budget |-> SumCol(SelectSeq(exp, LAMBDA r : r.Category.s = c), "Budget"),
         Actual |-> SumCol(SelectSeq(exp, LAMBDA r : r.Category.s = c), "Actual")] :
            c \in {exp[i].Category.s : i \in 1..Len(exp)}}

\* keycats: the categories whose rolling average is tracked.
KeyCats == <<"Restaurant & Food Delivery", "Clothing">>

\* dfk grouped by Month and Category: the Expense rows of the tracked
\* categories summed per month, with the month as pd.to_datetime(Month + "-01").
RollGroups(df) ==
    LET dfk == SelectSeq(df, LAMBDA r :
                   /\ IsType(r, "Expense")
                   /\ \E k \in 1..Len(KeyCats) : r.Category.s = KeyCats[k])
        keys == {<<dfk[i].Month.s, dfk[i].Category.s>> : i \in 1..Len(dfk)}
    IN {[Category |-> k[2],
         Key |-> k[1],
         Month |-> ToDatetime(Str(k[1] \o "-01")),
         Actual |-> SumCol(SelectSeq(dfk, LAMBDA r :
                               r.Month.s = k[1] /\ r.Category.s = k[2]), "Actual")] :
            k \in keys}

\* roll.sort_values(["Category", "Month"]): by category, then by the month's
\* date; rows of one category and date stay in the order of their keys.
RollBefore(a, b) ==
    IF a.Category # b.Category THEN StrLess(a.Category, b.Category)
    ELSE IF a.Month.n # b.Month.n THEN a.Month.n < b.Month.n
    ELSE StrLess(a.Key, b.Key)

RECURSIVE RollSorted(_)
RollSorted(S) ==
    IF S = {} THEN <<>>
    ELSE LET first == CHOOSE x \in S : \A y \in S \ {x} : RollBefore(x, y)
         IN <<first>> \o RollSorted(S \ {first})

\* rolling(window, min_periods).mean() at position i of a series: the mean
\* of the last window values up to i, kept as the exact fraction sum / count,
\* and missing when fewer than min_periods values are there.
RECURSIVE SumRange(_, _, _)
SumRange(vals, from, to) ==
    IF from > to THEN 0 ELSE vals[from] + SumRange(vals, from + 1, to)

RollingMean(vals, i, window, min_periods) ==
    LET from == IF i - window + 1 < 1 THEN 1 ELSE i - window + 1
        count == i - from + 1
    IN IF count < min_periods THEN [null |-> TRUE, sum |-> 0, count |-> 0]
       ELSE [null |-> FALSE, sum |-> SumRange(vals, from, i), count |-> count]

\* Roll3 of a position of one category's series: rolling(3, min_periods=1).
Roll3Unfilled(vals, i) == RollingMean(vals, i, 3, 3)
Roll3(vals, i) == RollingMean(vals, i, 3, 1)

\* roll: the sorted groups, each with the rolling mean of its category's
\* series at its position.
RollTable(df) ==
    LET sorted == RollSorted(RollGroups(df))
        series(c) == SelectSeq(sorted, LAMBDA r : r.Category = c)
        vals(c) == [j \in 1..Len(series(c)) |-> series(c)[j].Actual]
        pos(i) == Cardinality({j \in 1..i : sorted[j].Category = sorted[i].Category})
    IN [i \in 1..Len(sorted) |->
           [Category |-> sorted[i].Category,
            Month |-> sorted[i].Month.s,
            Actual |-> sorted[i].Actual,
            Roll3 |-> Roll3(vals(sorted[i].Category), pos(i))]]

RECURSIVE SumField(_, _)
SumField(S, f) ==
    IF S = {} THEN 0
    ELSE LET x == CHOOSE y \in S : TRUE IN x[f] + SumField(S \ {x}, f)

-----------------------------------------------------------------------------
(* The pace tracker.                                                       *)

Min(a, b) == IF a < b THEN a ELSE b

\* year, mon = map(int, cm.split("-"))
YearOf(cm) == ToInt(Split(cm, "-")[1])
MonOf(cm) == ToInt(Split(cm, "-")[2])

\* (end - start).days, end being the first day of the next month.
DaysInMonth(cm) ==
    LET year == YearOf(cm)
        mon == MonOf(cm)
        start == Ordinal(year, mon, 1)
        end == IF mon = 12 THEN Ordinal(year + 1, 1, 1) ELSE Ordinal(year, mon + 1, 1)
    IN end - start

\* min((datetime.now() - start).days + 1, days_in_month); the days of a
\* negative difference are rounded down, so a clock before the month's
\* start gives a number below 1.
TodayInMonth(cm, clock) ==
    Min(Ordinal(clock.year, clock.month, clock.day)
            - Ordinal(YearOf(cm), MonOf(cm), 1) + 1,
        DaysInMonth(cm))

\* The pace numbers of the month cm.  expected_spend_to_date is
\* monthly_budget_total * (today_in_month / days_in_month), kept as the
\* exact fraction expected_num / expected_den.
Pace(exp_only, cm, clock) ==
    LET days == DaysInMonth(cm)
        today == TodayInMonth(cm, clock)
        total == SumField(exp_only, "Budget")
    IN [cm |-> cm,
        days_in_month |-> days,
        today_in_month |-> today,
        monthly_budget_total |-> total,
        spent_to_date |-> SumField(exp_only, "Actual"),
        expected_num |-> IF days # 0 THEN total * today ELSE 0,
        expected_den |-> IF days # 0 THEN days ELSE 1]

\* What the pace tracker holds when there is no data (the tab shows
\* "No data yet." and computes nothing).
NoPace == [cm |-> "", days_in_month |-> 0, today_in_month |-> 0,
           monthly_budget_total |-> 0, spent_to_date |-> 0,
           expected_num |-> 0, expected_den |-> 1]

-----------------------------------------------------------------------------
(* Guardrails.                                                             *)

\* The share of the budget (0.8, as 4/5) and the day of the month (20) of
\* the early burn-rate rule.
BurnShareNum == 4
BurnShareDen == 5
BurnDay == 20

\* monthly_budget_total > 0 and today_in_month < 20 and
\* spent_to_date > 0.8 * monthly_budget_total
EarlyBurnAtLeast(p) ==
    /\ p.monthly_budget_total > 0
    /\ p.today_in_month < BurnDay
    /\ BurnShareDen * p.spent_to_date >= BurnShareNum * p.monthly_budget_total

EarlyBurn(p) ==
    /\ p.monthly_budget_total > 0
    /\ p.today_in_month < BurnDay
    /\ BurnShareDen * p.spent_to_date > BurnShareNum * p.monthly_budget_total

\* exp_only.loc[exp_only["Category"] == cat, "Actual"].sum()
SpentCat(exp_only, cat) == SumField({r \in exp_only : r.Category = cat}, "Actual")

\* Whether a category's spend breaches its hard cap.
CapBreachedAtLeast(spent_cat, cap) == spent_cat >= cap
CapBreached(spent_cat, cap) == spent_cat > cap

\* The alerts of the hard caps, one per breached entry, in the caps' order.
RECURSIVE CapAlerts(_, _)
CapAlerts(caps, exp_only) ==
    IF Len(caps) = 0 THEN <<>>
    ELSE (IF CapBreached(SpentCat(exp_only, Head(caps).Category), Head(caps).Cap)
          THEN <<[rule |-> "cap", cat |-> Head(caps).Category,
                  amount |-> Head(caps).Cap]>>
          ELSE <<>>)
         \o CapAlerts(Tail(caps), exp_only)

\* The alerts list: the early burn-rate alert, then the hard-cap alerts.
Alerts(p, exp_only, s) ==
    (IF EarlyBurn(p) THEN <<[rule |-> "burn", cat |-> "", amount |-> 0]>> ELSE <<>>)
    \o CapAlerts(s.hard_caps, exp_only)

\* The risk guards' pairs of category and setting.
RiskGuards == <<[cat |-> "Trade", key |-> "max_loss_limit_trade"],
                [cat |-> "Bet", key |-> "max_loss_limit_bet"]>>

\* dfm[(Type == "Expense") & (Category == risk_cat)]["Actual"].sum()
RiskSpent(dfm, risk_cat) ==
    SumCol(SelectSeq(dfm, LAMBDA r : IsType(r, "Expense") /\ r.Category.s = risk_cat),
           "Actual")

\* limit and spent_cat > limit
RiskBreached(limit, spent_cat) == limit # 0 /\ spent_cat > limit

\* The errors of the risk guards, shown by st.error one by one.
RECURSIVE RiskErrorsFrom(_, _, _)
RiskErrorsFrom(guards, dfm, s) ==
    IF Len(guards) = 0 THEN <<>>
    ELSE (IF RiskBreached(s[Head(guards).key], RiskSpent(dfm, Head(guards).cat))
          THEN <<[rule |-> "risk", cat |-> Head(guards).cat,
                  amount |-> s[Head(guards).key]]>>
          ELSE <<>>)
         \o RiskErrorsFrom(Tail(guards), dfm, s)

\* s["hard_caps"] = {row.Category: float(row.Cap) for row in caps_edit if Cap > 0}:
\* a dict keeps a key's first position and its last value.
RECURSIVE CapsDict(_, _)
CapsDict(rows, acc) ==
    IF Len(rows) = 0 THEN acc
    ELSE LET r == Head(rows)
             known == \E i \in 1..Len(acc) : acc[i].Category = r.Category
         IN CapsDict(Tail(rows),
                IF r.Cap <= 0 THEN acc
                ELSE IF known
                     THEN [i \in 1..Len(acc) |->
                              IF acc[i].Category = r.Category THEN r ELSE acc[i]]
                ELSE Append(acc, r))

-----------------------------------------------------------------------------
(* The session: its initial state and one rerun of the script.             *)

\* The catalog the session starts with.
DefaultCategories ==
    <<[Category |-> "Salary", Type |-> "Income", Section |-> "Savings"],
      [Category |-> "Other Income", Type |-> "Income", Section |-> "Savings"],
      [Category |-> "Rent", Type |-> "Expense", Section |-> "Needs"],
      [Category |-> "Insurance", Type |-> "Expense", Section |-> "Needs"],
      [Category |-> "Phone", Type |-> "Expense", Section |-> "Needs"],
      [Category |-> "Debts", Type |-> "Expense", Section |-> "Needs"],
      [Category |-> "Phone Subs (ChatGPT, Google Cloud, Apple Music, Extra)",
       Type |-> "Expense", Section |-> "Wants"],
      [Category |-> "Clothing", Type |-> "Expense", Section |-> "Wants"],
      [Category |-> "Restaurant & Food Delivery", Type |-> "Expense", Section |-> "Wants"],
      [Category |-> "Bet", Type |-> "Expense", Section |-> "Wants"],
      [Category |-> "Trade", Type |-> "Expense", Section |-> "Wants"],
      [Category |-> "Groceries", Type |-> "Expense", Section |-> "Needs"],
      [Category |-> "Transport", Type |-> "Expense", Section |-> "Needs"],
      [Category |-> "Utilities", Type |-> "Expense", Section |-> "Needs"],
      [Category |-> "Entertainment", Type |-> "Expense", Section |-> "Wants"],
      [Category |-> "Miscellaneous", Type |-> "Expense", Section |-> "Wants"]>>

\* The budget table the session starts with: 0 for every category.
DefaultBudgets ==
    [i \in 1..Len(DefaultCategories) |->
        [Category |-> DefaultCategories[i].Category, Budget |-> 0]]

\* The clock when the session starts, and the later dates it is read at.
StartDate == [year |-> 2024, month |-> 1, day |-> 19]
LaterDates == {[year |-> 2024, month |-> 1, day |-> 20],
               [year |-> 2024, month |-> 3, day |-> 5]}

\* datetime.now().strftime("%Y-%m")
YearMonth(clock) == ZeroPad(IntToStr(clock.year), 4) \o "-" \o ZeroPad(IntToStr(clock.month), 2)

DefaultSettings ==
    [default_month |-> YearMonth(StartDate),
     hard_caps |-> <<>>,
     max_loss_limit_trade |-> 0,
     max_loss_limit_bet |-> 0]

NoFile == [present |-> FALSE, columns |-> <<>>, rows |-> <<>>]

\* The Budget & Entries and Analytics tabs of one rerun, over the session
\* data d, catalog c and budget table b as the Home tab left them, the
\* settings s as the previous rerun left them (the Settings tab runs last)
\* and the clock n.  With no data the tabs compute nothing.
Render(d, c, b, s, n) ==
    \E view \in {ensure_columns(d, c, s.default_month)} :
       IF Len(view) = 0
       THEN /\ cat_sum' = {}
            /\ monthly' = <<>>
            /\ pace' = NoPace
            /\ roll' = <<>>
            /\ alerts' = <<>>
            /\ no_breach' = FALSE
            /\ risk_errors' = <<>>
       ELSE \E cm \in {current_month_key(view, s.default_month)} :
            \E exp_only \in {ExpOnly(view, cm, b)} :
            \E p \in {Pace(exp_only, cm, n)} :
            \E list \in {Alerts(p, exp_only, s)} :
               /\ cat_sum' = CatSum(view, cm, b)
               /\ monthly' = aggregate_monthly(view)
               /\ pace' = p
               /\ roll' = RollTable(view)
               /\ alerts' = list
               /\ no_breach' = (Len(list) = 0)
               /\ risk_errors' = RiskErrorsFrom(RiskGuards, MonthRows(view, cm), s)

Init ==
    /\ data = <<>>
    /\ categories = DefaultCategories
    /\ budgets = DefaultBudgets
    /\ settings = DefaultSettings
    /\ now = StartDate
    /\ uploaded_cats = NoFile
    /\ uploaded = NoFile
    /\ submitted = FALSE
    /\ messages = <<>>
    /\ cat_sum = {}
    /\ monthly = <<>>
    /\ pace = NoPace
    /\ roll = <<>>
    /\ alerts = <<>>
    /\ no_breach = FALSE
    /\ risk_errors = <<>>

\* newcats = pd.read_csv(file) with its column names stripped: each row as a
\* record over the stripped names.
ReadCategories(file) ==
    LET names == [i \in 1..Len(file.columns) |-> Strip(file.columns[i])]
        at(c) == CHOOSE i \in 1..Len(names) : names[i] = c
    IN [i \in 1..Len(file.rows) |->
          [c \in {names[j] : j \in 1..Len(names)} |-> file.rows[i][at(c)]]]

\* {"Category", "Type", "Section"}.issubset(newcats.columns)
RequiredColumns == {"Category", "Type", "Section"}

HasRequiredColumns(file) ==
    RequiredColumns \subseteq {Strip(file.columns[i]) : i \in 1..Len(file.columns)}

\* A rerun with a file in the categories uploader.
UploadCategories(file) ==
    LET ok == HasRequiredColumns(file)
        cats == IF ok THEN ReadCategories(file) ELSE categories
        b == MergeBudgets(cats, budgets)
    IN /\ uploaded_cats' = [present |-> TRUE, columns |-> file.columns, rows |-> file.rows]
       /\ uploaded' = NoFile
       /\ submitted' = FALSE
       /\ categories' = cats
       /\ messages' = IF ok
                      THEN <<[level |-> "success", text |-> "Categories updated."]>>
                      ELSE <<>>
       /\ budgets' = b
       /\ UNCHANGED <<data, settings, now>>
       /\ Render(data, cats, b, settings, now)

\* The row the quick-entry form records.
NewRow(e, clock) ==
    [Month |-> Str(Slice(e.month, 7)),
     Date |-> Timestamp(clock.year, clock.month, clock.day),
     Category |-> Str(e.category),
     Type |-> Str(e.type),
     Budget |-> Num(e.budget),
     Actual |-> Num(e.actual),
     Section |-> Str(e.section)]

\* A rerun with the quick-entry form submitted; the form offers the
\* catalog's categories.
QuickEntry(e) ==
    LET b == MergeBudgets(categories, budgets)
        d == Append(data, NewRow(e, now))
    IN /\ Len(data) < MaxRows
       /\ e.category \in CatKeys(categories)
       /\ uploaded_cats' = NoFile
       /\ uploaded' = NoFile
       /\ submitted' = TRUE
       /\ budgets' = b
       /\ data' = d
       /\ messages' = <<[level |-> "success", text |-> "Entry added."]>>
       /\ UNCHANGED <<categories, settings, now>>
       /\ Render(d, categories, b, settings, now)

\* A rerun with a file in the data uploader: its rows are normalized and
\* appended; the session holds max_rows rows at most.
ImportRows(file, max_rows) ==
    LET df == ensure_columns(file.rows, categories, settings.default_month)
        b == MergeBudgets(categories, budgets)
        d == data \o df
    IN /\ Len(data) + Len(file.rows) <= max_rows
       /\ uploaded_cats' = NoFile
       /\ uploaded' = [present |-> TRUE, columns |-> file.columns, rows |-> file.rows]
       /\ submitted' = FALSE
       /\ budgets' = b
       /\ data' = d
       /\ messages' = <<[level |-> "success",
                         text |-> "Imported " \o IntToStr(Len(df)) \o " rows."]>>
       /\ UNCHANGED <<categories, settings, now>>
       /\ Render(d, categories, b, settings, now)

ImportData(file) == ImportRows(file, MaxRows)

\* A rerun after an edit on the Settings tab: the tabs before it still see
\* the settings of the previous rerun.
EditSettings(caps_edit, trade, bet) ==
    LET b == MergeBudgets(categories, budgets)
    IN /\ uploaded_cats' = NoFile
       /\ uploaded' = NoFile
       /\ submitted' = FALSE
       /\ budgets' = b
       /\ messages' = <<>>
       /\ settings' = [settings EXCEPT !.hard_caps = CapsDict(caps_edit, <<>>),
                                       !.max_loss_limit_trade = trade,
                                       !.max_loss_limit_bet = bet]
       /\ UNCHANGED <<data, categories, now>>
       /\ Render(data, categories, b, settings, now)

\* A rerun with no input, at the same or a later date.
Rerun(d) ==
    LET b == MergeBudgets(categories, budgets)
    IN /\ Ordinal(d.year, d.month, d.day) >= Ordinal(now.year, now.month, now.day)
       /\ now' = d
       /\ uploaded_cats' = NoFile
       /\ uploaded' = NoFile
       /\ submitted' = FALSE
       /\ budgets' = b
       /\ messages' = <<>>
       /\ UNCHANGED <<data, categories, settings>>
       /\ Render(data, categories, b, settings, d)

-----------------------------------------------------------------------------
(* The inputs of the session specification Spec: quick entries, data       *)
(* files and catalog files.                                                *)

EntryMonths == {"2024-01", "2024-02"}
EntryBudgets == {900}
EntrySections == {"Wants"}

\* The category, type and actual amount of a quick entry.
EntryKinds ==
    {<<"Salary", "Income", 2000>>, <<"Rent", "Expense", 800>>,
     <<"Rent", "Expense", 2000>>, <<"Rent", "Income", 800>>}

Entries ==
    {[month |-> m, category |-> k[1], type |-> k[2], actual |-> k[3],
      budget |-> b, section |-> sec] :
        m \in EntryMonths, k \in EntryKinds, b \in EntryBudgets, sec \in EntrySections}

\* A file without Date, Budget and Section columns, its month a full date
\* and its type in lower case; Gym is in no catalog but the first uploaded.
FileShort ==
    [columns |-> <<"Month", "Category", "Type", "Actual">>,
     rows |-> <<[Month |-> Str("2024-02-15"), Category |-> Str("Gym"),
                 Type |-> Str("expense"), Actual |-> Num(50)]>>]

\* A file with every column and cells that need coercion.
FileMessy ==
    [columns |-> Cols,
     rows |-> <<[Month |-> NaN, Date |-> Str("2024-01-15"), Category |-> Str("Rent"),
                 Type |-> Str("EXPENSE"), Budget |-> Str("n/a"),
                 Actual |-> Str("800"), Section |-> Str("Wants")],
                [Month |-> Str("2023-12"), Date |-> Str("soon"), Category |-> NaN,
                 Type |-> NaN, Budget |-> Num(100), Actual |-> NaN,
                 Section |-> NaN]>>]

\* A clean file of a category the default catalog lacks, with its own
\* budget and section.
FileGym ==
    [columns |-> Cols,
     rows |-> <<[Month |-> Str("2024-01"), Date |-> NaN, Category |-> Str("Gym"),
                 Type |-> Str("Expense"), Budget |-> Num(300), Actual |-> Num(100),
                 Section |-> Str("Savings")]>>]

DataFiles == {FileShort, FileMessy, FileGym}

\* A catalog that moves Rent to Wants and adds Gym.
CatalogMoved ==
    [columns |-> <<"Category", "Type", "Section">>,
     rows |-> <<<<"Salary", "Income", "Savings">>,
                <<"Rent", "Expense", "Wants">>,
                <<"Gym", "Expense", "Needs">>>>]

\* A catalog without Rent, its column names padded with blanks.
CatalogPadded ==
    [columns |-> <<" Category", "Type ", " Section ">>,
     rows |-> <<<<"Salary", "Income", "Savings">>,
                <<"Trade", "Expense", "Wants">>>>]

\* A catalog file without a Section column.
CatalogNoSection ==
    [columns |-> <<"Category", "Type">>,
     rows |-> <<<<"Rent", "Expense">>, <<"Gym", "Expense">>>>]

CatalogFiles == {CatalogMoved, CatalogPadded, CatalogNoSection}

Next ==
    \/ \E file \in CatalogFiles : UploadCategories(file)
    \/ \E e \in Entries : QuickEntry(e)
    \/ \E file \in DataFiles : ImportData(file)

Spec == Init /\ [][Next]_vars

-----------------------------------------------------------------------------
(* The inputs of the pace specification SpecPace: expenses of a category   *)
(* with a budget of its own, in a past, the present and a future month,    *)
(* and the clock.                                                          *)

PaceMonths == {"2023-12", "2024-01", "2024-02"}

\* One-row files of Gym, which the catalog lacks, with a budget of 1000 and
\* a spend around 80% of it.
PaceFile(m, a) ==
    [columns |-> <<"Month", "Category", "Type", "Budget", "Actual">>,
     rows |-> <<[Month |-> Str(m), Category |-> Str("Gym"), Type |-> Str("Expense"),
                 Budget |-> Num(1000), Actual |-> Num(a)]>>]

PaceFiles == {PaceFile(m, a) : m \in PaceMonths, a \in {800, 801}}

NextPace ==
    \/ \E file \in PaceFiles : ImportData(file)
    \/ \E d \in LaterDates \cup {now} : Rerun(d)

SpecPace == Init /\ [][NextPace]_vars

-----------------------------------------------------------------------------
(* The inputs of the guardrail specification SpecGuard: expenses of the    *)
(* risk categories around a cap and a loss limit of 100, and edits of the  *)
(* settings.                                                               *)

GuardEntries ==
    [month : {"2024-01"}, category : {"Trade", "Bet"}, type : {"Expense"},
     actual : {100, 101}, budget : {0}, section : {"Wants"}]

\* The rows of the hard-caps editor, in the catalog's order and then the rows
\* added by hand: every cap 0, or caps on Bet and Trade with Trade given
\* twice.
CapsEdits ==
    {<<[Category |-> "Clothing", Cap |-> 0], [Category |-> "Bet", Cap |-> 0],
       [Category |-> "Trade", Cap |-> 0]>>,
     <<[Category |-> "Clothing", Cap |-> 0], [Category |-> "Bet", Cap |-> 100],
       [Category |-> "Trade", Cap |-> 50], [Category |-> "Trade", Cap |-> 100]>>}

LossLimits == {0, 100}

NextGuard ==
    \/ \E e \in GuardEntries : QuickEntry(e)
    \/ \E caps_edit \in CapsEdits, trade \in LossLimits, bet \in LossLimits :
           EditSettings(caps_edit, trade, bet)
    \/ \E d \in {now} : Rerun(d)

SpecGuard == Init /\ [][NextGuard]_vars

-----------------------------------------------------------------------------
(* The inputs of the rolling-average specification SpecRoll: one-row files *)
(* of the tracked categories over four months, recorded in any order.      *)

\* The most rows the session data holds under SpecRoll.
MaxRollRows == 4

RollFile(m, cat, type, a) ==
    [columns |-> <<"Month", "Category", "Type", "Actual">>,
     rows |-> <<[Month |-> Str(m), Category |-> Str(cat), Type |-> Str(type),
                 Actual |-> Num(a)]>>]

\* Clothing expenses of four months, each month with an amount of its own,
\* an expense of the other tracked category, and an Income row of Clothing.
RollFiles ==
    {RollFile("2023-12", "Clothing", "Expense", 90),
     RollFile("2024-01", "Clothing", "Expense", 30),
     RollFile("2024-02", "Clothing", "Expense", 60),
     RollFile("2024-03", "Clothing", "Expense", 120),
     RollFile("2024-01", "Restaurant & Food Delivery", "Expense", 50),
     RollFile("2024-01", "Clothing", "Income", 1000)}

NextRoll == \E file \in RollFiles : ImportRows(file, MaxRollRows)

SpecRoll == Init /\ [][NextRoll]_vars

-----------------------------------------------------------------------------
(* The inputs of the budget-map specification SpecBudget.  The summaries   *)
(* read the budget table as they find it in the session (bmap), so the     *)
(* specification takes the table as an input of theirs: the table of the   *)
(* session's start, or that table with a monthly budget for Rent.  (The    *)
(* script itself never writes a budget other than 0 into the table.)       *)

BudgetTables ==
    {[i \in 1..Len(DefaultBudgets) |->
         IF DefaultBudgets[i].Category = "Rent"
         THEN [Category |-> "Rent", Budget |-> rent]
         ELSE DefaultBudgets[i]] : rent \in {0, 900}}

InitBudget ==
    /\ data = <<>>
    /\ categories = DefaultCategories
    /\ budgets \in BudgetTables
    /\ settings = DefaultSettings
    /\ now = StartDate
    /\ uploaded_cats = NoFile
    /\ uploaded = NoFile
    /\ submitted = FALSE
    /\ messages = <<>>
    /\ cat_sum = {}
    /\ monthly = <<>>
    /\ pace = NoPace
    /\ roll = <<>>
    /\ alerts = <<>>
    /\ no_breach = FALSE
    /\ risk_errors = <<>>

\* Quick entries of two expense categories of the budget table, in two
\* months; the form's budget field is left at 0.
BudgetEntries ==
    [month : {"2024-01", "2024-02"}, category : {"Rent", "Groceries"},
     type : {"Expense"}, actual : {400, 500}, budget : {0}, section : {"Needs"}]

NextBudget == \E e \in BudgetEntries : QuickEntry(e)

SpecBudget == InitBudget /\ [][NextBudget]_vars

-----------------------------------------------------------------------------
(* The properties checked of the session specification Spec.               *)

\* data = ensure_columns(st.session_state.data.copy()): the rows the tabs read.
View == ensure_columns(data, categories, settings.default_month)

\* The sum of Actual over the rows of df of month m and type t.
RECURSIVE SumActualOf(_, _, _)
SumActualOf(df, m, t) ==
    IF Len(df) = 0 THEN 0
    ELSE (IF Head(df).Month = Str(m) /\ Head(df).Type = Str(t)
          THEN Head(df).Actual.n ELSE 0)
         + SumActualOf(Tail(df), m, t)

\* C1: the monthly summaries hold exactly one entry per distinct month key of
\* the rows read, in strictly ascending order of the key; an entry's income
\* is the sum of Actual over the month's Income rows, its expense the sum
\* over the month's Expense rows, and its savings their difference, which is
\* negative when the expense is the larger.
C1_MonthlySummaries ==
    \A view \in {View} :
        LET months == {view[i].Month.s : i \in 1..Len(view)}
        IN /\ Len(monthly) = Cardinality(months)
           /\ {monthly[i].Month : i \in 1..Len(monthly)} = months
           /\ \A i \in 1..(Len(monthly) - 1) :
                  StrLess(monthly[i].Month, monthly[i + 1].Month)
           /\ \A i \in 1..Len(monthly) :
                  /\ monthly[i].Income = SumActualOf(view, monthly[i].Month, "Income")
                  /\ monthly[i].Expense = SumActualOf(view, monthly[i].Month, "Expense")
                  /\ monthly[i].Savings = monthly[i].Income - monthly[i].Expense

\* Two months recorded latest first, the later one spending more than it
\* earns: the summaries are in ascending order and the later one's savings
\* are negative.
C1_Witness ==
    /\ Len(data) = 2
    /\ StrLess(data[2].Month.s, data[1].Month.s)
    /\ Len(monthly) = 2
    /\ monthly[1].Month = data[2].Month.s
    /\ monthly[2].Month = data[1].Month.s
    /\ monthly[2].Expense > monthly[2].Income
    /\ monthly[2].Savings < 0

C3_EndToEndExample ==
    (/\ categories = DefaultCategories
     /\ Len(data) = 2
     /\ data[1].Month = Str("2024-01") /\ data[1].Type = Str("Income")
     /\ data[1].Actual = Num(2000)
     /\ data[2].Month = Str("2024-01") /\ data[2].Type = Str("Expense")
     /\ data[2].Category = Str("Rent")
     /\ data[2].Actual = Num(800) /\ data[2].Budget = Num(900))
    => /\ monthly = <<[Month |-> "2024-01", Income |-> 2000, Expense |-> 800,
                       Savings |-> 1200]>>
       /\ \E r \in cat_sum :
              /\ r.Category = "Rent"
              /\ r.Budget = 900 /\ r.Actual = 800 /\ r.Variance = 100

\* What the program shows for those two entries: the month summary of the
\* example, and a Rent row with budget 0 and variance -800, the budget
\* table's 0 for Rent having replaced the 900 of the entry.
C3_RentBudgetZeroed ==
    /\ categories = DefaultCategories
    /\ Len(data) = 2
    /\ data[1].Month = Str("2024-01") /\ data[1].Type = Str("Income")
    /\ data[1].Actual = Num(2000)
    /\ data[2].Month = Str("2024-01") /\ data[2].Type = Str("Expense")
    /\ data[2].Category = Str("Rent")
    /\ data[2].Actual = Num(800) /\ data[2].Budget = Num(900)
    /\ monthly = <<[Month |-> "2024-01", Income |-> 2000, Expense |-> 800,
                    Savings |-> 1200]>>
    /\ \A r \in cat_sum :
           r.Category = "Rent" => r.Budget = 0 /\ r.Actual = 800 /\ r.Variance = -800
    /\ \E r \in cat_sum : r.Category = "Rent"

\* The budget of one row as the summary counts it: the budget table's value
\* for the row's category when the table has the category, the row's own
\* Budget otherwise.
RowBudget(r, b) ==
    IF r.Category.s \in BudgetKeys(b) THEN BudgetOf(b, r.Category.s) ELSE r.Budget.n

RECURSIVE SumRowBudgets(_, _)
SumRowBudgets(grp, b) ==
    IF Len(grp) = 0 THEN 0 ELSE RowBudget(Head(grp), b) + SumRowBudgets(Tail(grp), b)

\* Months every session of the model leaves without rows.
EmptyMonths == {"2023-11", "2024-03"}

\* C4: the per-category summary of the current month has one row per
\* (category, type, section) of the month's rows; a row's actual is the sum
\* of the group's Actual; the budget of an Expense row is the sum over the
\* group of the budget table's value where the table has the category and of
\* the row's own Budget otherwise, and its variance is budget minus actual;
\* an Income row has budget 0 and variance 0; a month without rows has an
\* empty summary.
C4_CategorySummary ==
    \A view \in {View} :
    \A cm \in {current_month_key(view, settings.default_month)} :
        LET group(r) == SelectSeq(view, LAMBDA x :
                            /\ x.Month = Str(cm)
                            /\ x.Category = Str(r.Category)
                            /\ x.Type = Str(r.Type)
                            /\ x.Section = Str(r.Section))
        IN /\ \A r \in cat_sum :
                  /\ Len(group(r)) > 0
                  /\ r.Actual = SumCol(group(r), "Actual")
                  /\ IF r.Type = "Income"
                     THEN r.Budget = 0 /\ r.Variance = 0
                     ELSE /\ r.Budget = SumRowBudgets(group(r), budgets)
                          /\ r.Variance = r.Budget - r.Actual
           /\ \A r1, r2 \in cat_sum :
                  (r1.Category = r2.Category /\ r1.Type = r2.Type
                       /\ r1.Section = r2.Section) => r1 = r2
           /\ \A i \in 1..Len(view) :
                  (view[i].Month = Str(cm) /\ ~IsNull(view[i].Type)
                       /\ ~IsNull(view[i].Section))
                  => \E r \in cat_sum :
                         /\ r.Category = view[i].Category.s
                         /\ r.Type = view[i].Type.s
                         /\ r.Section = view[i].Section.s
           /\ \A m \in EmptyMonths :
                  MonthRows(view, m) = <<>> /\ CatSum(view, m, budgets) = {}

\* The current month holds an Income row entered with a budget of its own
\* and an Expense row of a category the budget table lacks: the first is
\* summarised with budget 0 and variance 0, the second with its own budget.
C4_Witness ==
    /\ \E i \in 1..Len(data) :
           /\ data[i].Type = Str("Income") /\ data[i].Budget.n > 0
           /\ data[i].Actual.n > 0
           /\ \E r \in cat_sum :
                  /\ r.Category = data[i].Category.s /\ r.Type = "Income"
                  /\ r.Actual > 0 /\ r.Budget = 0 /\ r.Variance = 0
    /\ \E r \in cat_sum :
           /\ r.Type = "Expense"
           /\ r.Category \notin BudgetKeys(budgets)
           /\ r.Budget > 0
           /\ r.Variance = r.Budget - r.Actual
           /\ r.Variance # 0

\* Whether the Home tab reported anything in the latest rerun other than a
\* success.
Rejected(msgs) == \E i \in 1..Len(msgs) : msgs[i].level # "success"

\* C5 (as the specification states it): a rerun with a catalog file lacking
\* one of the columns Category, Type, Section leaves the catalog as it was
\* and reports the rejection; a file with all three replaces the catalog by
\* the file's rows.
C5_UploadRejectionReported ==
    [][uploaded_cats'.present =>
           IF HasRequiredColumns(uploaded_cats')
           THEN categories' = ReadCategories(uploaded_cats')
           ELSE categories' = categories /\ Rejected(messages')]_vars

\* A rerun with a catalog file lacking the Section column: the catalog is
\* the default one still, and the Home tab reported nothing at all.
C5_SilentRejection ==
    /\ uploaded_cats.present
    /\ ~HasRequiredColumns(uploaded_cats)
    /\ "Section" \notin {Strip(uploaded_cats.columns[i]) :
                            i \in 1..Len(uploaded_cats.columns)}
    /\ categories = DefaultCategories
    /\ messages = <<>>

\* What holds of the catalog upload: the catalog changes only in a rerun
\* with a file that has the three columns, and then to the file's rows.
C5_CatalogPart ==
    [][/\ (uploaded_cats'.present /\ HasRequiredColumns(uploaded_cats'))
           => categories' = ReadCategories(uploaded_cats')
       /\ ~(uploaded_cats'.present /\ HasRequiredColumns(uploaded_cats'))
           => categories' = categories]_vars

\* C10: for the rows of every file and the session's rows, under the
\* catalog and default month of the session, ensure_columns applied to the
\* output of ensure_columns gives that output again, in every column.
C10_Idempotent ==
    \A raw \in {data} \cup {f.rows : f \in DataFiles} :
    \A once \in {ensure_columns(raw, categories, settings.default_month)} :
        ensure_columns(once, categories, settings.default_month) = once

\* A file whose rows the first pass changes (a column added, a cell
\* coerced) has been imported, and the tabs read the stored rows as another
\* pass over them.
C10_Witness ==
    /\ uploaded.present
    /\ Len(uploaded.rows) > 0
    /\ Len(data) = Len(uploaded.rows)
    /\ data = ensure_columns(uploaded.rows, categories, settings.default_month)
    /\ \E i \in 1..Len(data) :
           /\ DOMAIN data[i] # DOMAIN uploaded.rows[i]
           /\ data[i].Type # uploaded.rows[i].Type
    /\ View = data

-----------------------------------------------------------------------------
(* The properties checked of the pace specification SpecPace.              *)

\* C6 (as the specification states it): whatever month is analysed, past,
\* present or future, days_in_month is the calendar length of the month,
\* today_in_month is min(days elapsed since the month's start + 1,
\* days_in_month), and the expected spend to date lies between 0 and the
\* total budget.
C6_ExpectedWithinBudget ==
    pace.cm # "" =>
        /\ pace.days_in_month = CalendarDays(YearOf(pace.cm), MonOf(pace.cm))
        /\ pace.today_in_month =
               Min(Ordinal(now.year, now.month, now.day)
                       - Ordinal(YearOf(pace.cm), MonOf(pace.cm), 1) + 1,
                   pace.days_in_month)
        /\ 0 <= pace.expected_num
        /\ pace.expected_num <= pace.monthly_budget_total * pace.expected_den

\* A month after the clock's under analysis, with a budget: the day of the
\* month is below 1 and the expected spend to date is below 0.
C6_NegativeExpected ==
    /\ pace.cm # ""
    /\ StrLess(YearMonth(now), pace.cm)
    /\ pace.monthly_budget_total > 0
    /\ pace.today_in_month < 1
    /\ pace.expected_num < 0

\* What holds of the pace tracker: the month's length, the day of the month
\* as the minimum, the upper bound of the expected spend, and the lower
\* bound as well when the month analysed is not after the clock's.
C6_PacePart ==
    pace.cm # "" =>
        /\ pace.days_in_month = CalendarDays(YearOf(pace.cm), MonOf(pace.cm))
        /\ pace.today_in_month =
               Min(Ordinal(now.year, now.month, now.day)
                       - Ordinal(YearOf(pace.cm), MonOf(pace.cm), 1) + 1,
                   pace.days_in_month)
        /\ pace.expected_num <= pace.monthly_budget_total * pace.expected_den
        /\ ~StrLess(YearMonth(now), pace.cm) => 0 <= pace.expected_num

HasBurnAlert(list) == \E i \in 1..Len(list) : list[i].rule = "burn"

\* C8: the alerts hold the early burn-rate alert, once, exactly when the
\* total budget is above 0, the day of the month is below 20 and five times
\* the spend exceeds four times the total budget (the spend is strictly
\* above 80% of it); so a budget of 1000 on day 19 alerts at 801 and not at
\* 800, and no spend alerts from day 20 on.
C8_EarlyBurnRule ==
    /\ HasBurnAlert(alerts) <=>
           /\ pace.monthly_budget_total > 0
           /\ pace.today_in_month < 20
           /\ 5 * pace.spent_to_date > 4 * pace.monthly_budget_total
    /\ Cardinality({i \in 1..Len(alerts) : alerts[i].rule = "burn"}) <= 1
    /\ (pace.monthly_budget_total = 1000 /\ pace.today_in_month = 19)
           => /\ pace.spent_to_date = 801 => HasBurnAlert(alerts)
              /\ pace.spent_to_date = 800 => ~HasBurnAlert(alerts)
    /\ pace.today_in_month >= 20 => ~HasBurnAlert(alerts)

\* A budget of 1000 on day 19 of the month with 801 spent: the alert is
\* among the alerts.
C8_Witness ==
    /\ pace.monthly_budget_total = 1000
    /\ pace.today_in_month = 19
    /\ pace.spent_to_date = 801
    /\ HasBurnAlert(alerts)
    /\ ~no_breach

-----------------------------------------------------------------------------
(* The properties checked of the guardrail specification SpecGuard.  The   *)
(* Analytics tab of a rerun reads the settings as the rerun before left    *)
(* them, so the properties relate the outputs of a rerun (primed) to the   *)
(* settings before it (unprimed).                                          *)

\* The Expense spend of a category in the current month of the rows df.
RECURSIVE SpendOf(_, _, _)
SpendOf(df, cm, cat) ==
    IF Len(df) = 0 THEN 0
    ELSE (IF /\ Head(df).Month = Str(cm)
             /\ Head(df).Type = Str("Expense")
             /\ Head(df).Category = Str(cat)
          THEN Head(df).Actual.n ELSE 0)
         + SpendOf(Tail(df), cm, cat)

CapAlertsOf(list) == SelectSeq(list, LAMBDA a : a.rule = "cap")

\* C7: the alerts of a rerun hold, for each entry of the hard caps the rerun
\* reads, exactly one cap alert naming the entry's category and cap when the
\* category's Expense spend in the current month is strictly above the cap,
\* and none when it is at or below the cap; they hold no other cap alert.
C7_HardCapRule ==
    [][\A view \in {ensure_columns(data', categories', settings.default_month)} :
       \A cm \in {current_month_key(view, settings.default_month)} :
          LET caps == settings.hard_caps
              shown == CapAlertsOf(alerts')
              count(cat) == Cardinality({j \in 1..Len(shown) : shown[j].cat = cat})
          IN IF Len(view) = 0 THEN alerts' = <<>>
             ELSE /\ \A i \in 1..Len(caps) :
                         count(caps[i].Category) =
                             IF SpendOf(view, cm, caps[i].Category) > caps[i].Cap
                             THEN 1 ELSE 0
                  /\ \A j \in 1..Len(shown) :
                         \E i \in 1..Len(caps) :
                             /\ shown[j].cat = caps[i].Category
                             /\ shown[j].amount = caps[i].Cap]_vars

\* Caps of 100 on Bet and Trade, Trade's spend 101 and Bet's 100: the cap
\* alerts are the one of Trade.
C7_Witness ==
    /\ \E i \in 1..Len(settings.hard_caps) :
           settings.hard_caps[i] = [Category |-> "Trade", Cap |-> 100]
    /\ \E i \in 1..Len(settings.hard_caps) :
           settings.hard_caps[i] = [Category |-> "Bet", Cap |-> 100]
    /\ SpendOf(View, "2024-01", "Trade") = 101
    /\ SpendOf(View, "2024-01", "Bet") = 100
    /\ CapAlertsOf(alerts) = <<[rule |-> "cap", cat |-> "Trade", amount |-> 100]>>

\* Whether a list of messages holds a loss-limit alert of a category.
HasRiskAlert(list, cat) ==
    \E j \in 1..Len(list) : list[j].rule = "risk" /\ list[j].cat = cat

\* C9 (as the specification states it): a rerun emits the loss-limit alert
\* of Trade, and of Bet, exactly when the limit the rerun reads is not 0 and
\* the category's Expense spend in the current month is strictly above it,
\* and the alert emitted is one of the alerts of the guardrail evaluation,
\* with the burn-rate and hard-cap alerts.
C9_RiskAlertAmongAlerts ==
    [][\A view \in {ensure_columns(data', categories', settings.default_month)} :
       \A cm \in {current_month_key(view, settings.default_month)} :
       \A i \in 1..Len(RiskGuards) :
          LET cat == RiskGuards[i].cat
              limit == settings[RiskGuards[i].key]
              emitted == HasRiskAlert(risk_errors', cat) \/ HasRiskAlert(alerts', cat)
          IN /\ emitted <=>
                    (Len(view) > 0 /\ limit # 0 /\ SpendOf(view, cm, cat) > limit)
             /\ emitted => HasRiskAlert(alerts', cat) /\ ~no_breach']_vars

\* A loss limit of 100 on Trade and 101 spent: the error of the risk guard
\* is shown, the alerts are empty and "No guardrail breaches detected." is
\* shown with it.
C9_BreachReportedAsNone ==
    /\ settings.max_loss_limit_trade = 100
    /\ SpendOf(View, "2024-01", "Trade") = 101
    /\ HasRiskAlert(risk_errors, "Trade")
    /\ alerts = <<>>
    /\ no_breach

\* What holds of the risk guards: the error of a category is shown, once,
\* exactly when the limit read is not 0 and the spend is strictly above it.
C9_RiskPart ==
    [][\A view \in {ensure_columns(data', categories', settings.default_month)} :
       \A cm \in {current_month_key(view, settings.default_month)} :
       \A i \in 1..Len(RiskGuards) :
          LET cat == RiskGuards[i].cat
              limit == settings[RiskGuards[i].key]
          IN /\ HasRiskAlert(risk_errors', cat) <=>
                    (Len(view) > 0 /\ limit # 0 /\ SpendOf(view, cm, cat) > limit)
             /\ Cardinality({j \in 1..Len(risk_errors') : risk_errors'[j].cat = cat}) <= 1]_vars

-----------------------------------------------------------------------------
(* The properties checked of the rolling-average specification SpecRoll.   *)

\* The rows of the rolling-average table of one category.
SeriesOf(table, cat) == SelectSeq(table, LAMBDA r : r.Category = cat)

\* C11: for each tracked category the table holds one row per month with an
\* expense of the category, in chronological order, with the month's expense
\* total; the rolling value of the row at position i of the category is not
\* missing and is the mean of the last min(3, i) totals up to position i:
\* the first total itself, then the mean of two, then of three.
C11_RollingAverage ==
    \A view \in {View} :
        /\ \A j \in 1..Len(roll) : \E k \in 1..Len(KeyCats) : roll[j].Category = KeyCats[k]
        /\ \A k \in 1..Len(KeyCats) :
           \A series \in {SeriesOf(roll, KeyCats[k])} :
              LET months == {view[i].Month.s : i \in
                               {i \in 1..Len(view) :
                                    /\ view[i].Type = Str("Expense")
                                    /\ view[i].Category = Str(KeyCats[k])}}
              IN /\ Len(series) = Cardinality(months)
                 /\ {series[j].Month : j \in 1..Len(series)} = {m \o "-01" : m \in months}
                 /\ \A j \in 1..(Len(series) - 1) :
                        StrLess(series[j].Month, series[j + 1].Month)
                 /\ \A j \in 1..Len(series) :
                        /\ series[j].Actual =
                               SpendOf(view, Slice(series[j].Month, 7), KeyCats[k])
                        /\ ~series[j].Roll3.null
                        /\ series[j].Roll3.count = (IF j < 3 THEN j ELSE 3)
                        /\ series[j].Roll3.sum =
                               series[j].Actual
                               + (IF j > 1 THEN series[j - 1].Actual ELSE 0)
                               + (IF j > 2 THEN series[j - 2].Actual ELSE 0)

\* Four months of Clothing recorded latest first: the series is in
\* chronological order, its rolling values are the first total, the mean of
\* two, and twice the mean of three, the last one leaving the first total
\* out.
C11_Witness ==
    /\ Len(data) = 4
    /\ \A i \in 1..3 : StrLess(data[i + 1].Month.s, data[i].Month.s)
    /\ \E series \in {SeriesOf(roll, "Clothing")} :
           /\ Len(series) = 4
           /\ series[1].Roll3 = [null |-> FALSE, sum |-> series[1].Actual, count |-> 1]
           /\ series[2].Roll3.count = 2
           /\ series[3].Roll3.count = 3
           /\ series[4].Roll3.count = 3
           /\ series[4].Roll3.sum =
                  series[2].Actual + series[3].Actual + series[4].Actual
           /\ series[4].Roll3.sum # series[3].Roll3.sum

-----------------------------------------------------------------------------
(* The properties checked of the budget-map specification SpecBudget.      *)

\* The Expense categories of the month cm of the rows df.
ExpenseCats(df, cm) ==
    {df[i].Category.s : i \in {i \in 1..Len(df) :
                                   df[i].Month = Str(cm) /\ df[i].Type = Str("Expense")}}

\* The number of Expense rows of a category in the month cm of the rows df.
ExpenseRows(df, cm, cat) ==
    Cardinality({i \in 1..Len(df) :
                     /\ df[i].Month = Str(cm)
                     /\ df[i].Type = Str("Expense")
                     /\ df[i].Category = Str(cat)})

RECURSIVE SumBudgetsOf(_, _)
SumBudgetsOf(cats, b) ==
    IF cats = {} THEN 0
    ELSE LET c == CHOOSE x \in cats : TRUE
         IN BudgetOf(b, c) + SumBudgetsOf(cats \ {c}, b)

C12_BudgetPerRow ==
    \A view \in {View} :
    \A cm \in {current_month_key(view, settings.default_month)} :
        (Len(view) > 0 /\ ExpenseCats(view, cm) \subseteq BudgetKeys(budgets))
        => /\ \A r \in cat_sum :
                  r.Type = "Expense"
                      => r.Budget = ExpenseRows(view, cm, r.Category)
                                        * BudgetOf(budgets, r.Category)
           /\ pace.monthly_budget_total = SumField(cat_sum, "Budget")

====
